---------------------------- MODULE Spec2Model ----------------------------
(***************************************************************************)
(* A model of the clocktick SDK: the JS router (createRouter, _write,      *)
(* customEndpoint, apiHandlerBuilder, httpRoute) and the Go server         *)
(* (NewServer, AddRoute, ServeHTTP).                                       *)
(*                                                                         *)
(* Strings are sequences of atoms: "." is the path separator, every other  *)
(* atom stands for a run of characters without a dot.  Cryptographic       *)
(* values are symbolic: a signature names its signer and the message it    *)
(* covers, a ciphertext names the key, the IV and the plaintext it seals.  *)
(***************************************************************************)
EXTENDS Integers, Sequences, FiniteSets, TLC

VARIABLES
    impl,       \* which SDK the process runs: "js" or "go"
    fns,        \* JS: the handler tree given to createRouter
    router,     \* JS: the object createRouter returned (scheduling functions)
    funcMap,    \* Go: Server.funcMap, route -> funcOpts
    now,        \* the wall clock, in seconds
    req,        \* the inbound request handled last
    resp,       \* the outcome of handling it
    post,       \* the outbound POST issued last by a scheduling function
    sealed,     \* the last call of encrypt: its key, plaintext and IV
    envelope,   \* the envelope string that call returned, as it travels
    opened,     \* the last call of decrypt on it: its key and result
    fetches,    \* the number of HTTP requests the outbound call issued
    reply,      \* the HTTP response to the outbound request
    result,     \* what the outbound call returned or threw
    keyPromise, \* the router's key derivation: its state and how often it ran
    awaiting,   \* the calls in progress that need the key
    entry,      \* JS: the call of fromNow or fromDatetime in progress
    held,       \* the builders the program holds, each with the calls that made it
    cells,      \* Go: the Delta values that builders point to
    made        \* JS: the job properties object the program holds

cryptoVars == <<sealed, envelope, opened>>
fetchVars == <<fetches, reply, result>>
keyVars == <<keyPromise, awaiting>>
propVars == <<entry, held, cells, made>>
vars == <<impl, fns, router, funcMap, now, req, resp, post, sealed, envelope,
          opened, fetches, reply, result, keyPromise, awaiting, entry, held,
          cells, made>>

---------------------------------------------------------------------------
(* Bounds of the model. *)

\* The clock starts here and is advanced at most MaxTicks times.
StartTime == 1000
MaxTicks == 1
\* The longest argument list a request or a scheduling call carries.
MaxArgs == 2
\* The number of parameters the JS handlers of the trees declare.
HandlerLength == 1
\* The number of calls that can be in progress at once.
MaxCalls == 2

---------------------------------------------------------------------------
(* Strings. *)

Dot == "."

\* Array.prototype.join("."), as _write uses it on keyStack.
RECURSIVE join(_)
join(keyStack) ==
    IF keyStack = <<>> THEN <<>>
    ELSE IF Len(keyStack) = 1 THEN keyStack[1]
    ELSE keyStack[1] \o <<Dot>> \o join(Tail(keyStack))

\* String.prototype.split("."), as httpRoute uses it on type.
RECURSIVE split(_)
split(str) ==
    IF \A i \in 1..Len(str) : str[i] # Dot THEN <<str>>
    ELSE LET i == CHOOSE j \in 1..Len(str) :
                      str[j] = Dot /\ \A m \in 1..(j - 1) : str[m] # Dot
         IN  <<SubSeq(str, 1, i - 1)>> \o split(SubSeq(str, i + 1, Len(str)))

---------------------------------------------------------------------------
(* JS values of a handler tree. *)

\* A handler function; id tells the functions of a tree apart and length
\* is its declared number of parameters (Function.prototype.length).
Fn(id) == [kind |-> "fn", id |-> id, length |-> HandlerLength]
\* A plain object; entries are in Object.entries order.
Obj(entries) == [kind |-> "obj", entries |-> entries]
Entry(key, value) == [key |-> key, value |-> value]
Undefined == [kind |-> "undefined"]

customEndpoint(endpoint, fnOrFns) ==
    [kind |-> "custom", endpoint |-> endpoint, fnOrFns |-> fnOrFns]

\* The closure apiHandlerBuilder returns: it captures jobType and endpoint.
apiHandlerBuilder(jobType, endpoint) ==
    [kind |-> "handler", jobType |-> jobType, endpoint |-> endpoint]

\* keyStack.pop(): removes the last element, a no-op on the empty array.
pop(keyStack) ==
    IF keyStack = <<>> THEN keyStack
    ELSE SubSeq(keyStack, 1, Len(keyStack) - 1)

\* k = keyStack.join("."); if (k === "") k = key; else k += `.${key}`
jobTypeOf(keyStack, key) ==
    LET k == join(keyStack)
    IN  IF k = <<>> THEN key ELSE k \o <<Dot>> \o key

\* A wrapper that keeps the endpoint already in force: the outermost wins.
customEndpointIdOuter(value, endpointId) ==
    IF endpointId \in {"E1", "E2"} THEN endpointId ELSE value.endpoint

\* const [customEndpointId, customFns] = value[internalSym]
customEndpointIdOf(value, endpointId) == value.endpoint

\* _write(apiKey, encryptionKey, endpointId, obj, fns, keyStack).  obj and
\* keyStack are mutated in place by the code, so the result is the pair of
\* both after the call.  obj is a function from keys to scheduling functions
\* or nested objects.
RECURSIVE _write(_, _, _, _)
RECURSIVE _writeEntries(_, _, _, _)
_writeEntries(endpointId, obj, entries, keyStack) ==
    IF entries = <<>> THEN [obj |-> obj, keyStack |-> keyStack]
    ELSE
        LET key == Head(entries).key
            value == Head(entries).value
            after ==
                IF value.kind = "fn" THEN
                    [obj |-> (key :> apiHandlerBuilder(jobTypeOf(keyStack, key), endpointId)) @@ obj,
                     keyStack |-> keyStack]
                ELSE IF value.kind = "custom" THEN
                    _write(customEndpointIdOf(value, endpointId), obj,
                           <<Entry(key, value.fnOrFns)>>, keyStack)
                ELSE
                    LET inner == _write(endpointId, <<>>, value.entries, Append(keyStack, key))
                    IN  [obj |-> (key :> [kind |-> "obj", props |-> inner.obj]) @@ obj,
                         keyStack |-> inner.keyStack]
        IN  _writeEntries(endpointId, after.obj, Tail(entries), after.keyStack)

_write(endpointId, obj, entries, keyStack) ==
    LET done == _writeEntries(endpointId, obj, entries, keyStack)
    IN  [obj |-> done.obj, keyStack |-> pop(done.keyStack)]

\* createRouter: the object with the scheduling functions of the tree.
createRouter(defaultEndpointId, tree) ==
    _write(defaultEndpointId, <<>>, tree.entries, <<>>).obj


---------------------------------------------------------------------------
(* The handler trees the model builds routers from. *)

Keys == {<<"a">>, <<"b">>}
Endpoints == {"E1", "E2"}
DefaultEndpointId == "default"

\* The objects with at most two entries whose values are drawn from vals.
ObjsOver(vals) ==
    {Obj(<<>>)}
    \cup {Obj(<<Entry(k, v)>>) : k \in Keys, v \in vals}
    \cup {Obj(<<Entry(k[1], v), Entry(k[2], w)>>) :
            k \in {kk \in Keys \X Keys : kk[1] # kk[2]}, v \in vals, w \in vals}

WrapsOf(vals) == {customEndpoint(e, v) : e \in Endpoints, v \in vals}

\* Handler functions are told apart by where the tree declares them: label
\* gives each function the key sequence leading to it as its id.
RECURSIVE label(_, _)
label(v, path) ==
    IF v.kind = "fn" THEN Fn(path)
    ELSE IF v.kind = "custom" THEN customEndpoint(v.endpoint, label(v.fnOrFns, path))
    ELSE Obj([i \in 1..Len(v.entries) |->
                Entry(v.entries[i].key,
                      label(v.entries[i].value, Append(path, v.entries[i].key)))])

Vals0 == {Fn(<<>>)}
Vals1 == Vals0 \cup WrapsOf(Vals0) \cup ObjsOver(Vals0)
Vals2 == Vals1 \cup WrapsOf(Vals1) \cup ObjsOver(Vals1)
Vals3 == Vals2 \cup WrapsOf(ObjsOver(Vals1))

\* Trees for the router specification: one root entry of any shape up to
\* three levels, or two root entries one of which is a plain function.
RouterTrees ==
    {label(Obj(<<Entry(k, v)>>), <<>>) : k \in Keys, v \in Vals3}
    \cup {label(Obj(<<Entry(k[1], v), Entry(k[2], Fn(<<>>))>>), <<>>) :
            k \in {kk \in Keys \X Keys : kk[1] # kk[2]}, v \in Vals3}
    \cup {label(Obj(<<Entry(k[1], Fn(<<>>)), Entry(k[2], v)>>), <<>>) :
            k \in {kk \in Keys \X Keys : kk[1] # kk[2]}, v \in Vals3}

\* The scheduling functions of a router object, by the property path that
\* reaches them (router.a.b is <<a, b>>).
RECURSIVE handlersOf(_, _)
handlersOf(obj, path) ==
    UNION {IF obj[k].kind = "handler"
           THEN {[at |-> Append(path, k), handler |-> obj[k]]}
           ELSE handlersOf(obj[k].props, Append(path, k)) : k \in DOMAIN obj}

---------------------------------------------------------------------------
(* Numbers in strings. *)

Digits == <<"0", "1", "2", "3", "4", "5", "6", "7", "8", "9">>
IsDigit(c) == \E d \in 1..10 : Digits[d] = c
DigitVal(c) == (CHOOSE d \in 1..10 : Digits[d] = c) - 1

\* The decimal string of a natural number (Number.prototype.toString,
\* strconv.Itoa).
RECURSIVE Itoa(_)
Itoa(n) == IF n < 10 THEN <<Digits[n + 1]>>
           ELSE Itoa(n \div 10) \o <<Digits[(n % 10) + 1]>>

RECURSIVE DigitsValue(_, _)
DigitsValue(str, acc) ==
    IF str = <<>> THEN acc
    ELSE DigitsValue(Tail(str), acc * 10 + DigitVal(Head(str)))

\* The longest prefix of str made of digits.
RECURSIVE DigitPrefix(_)
DigitPrefix(str) ==
    IF str = <<>> \/ ~IsDigit(Head(str)) THEN <<>>
    ELSE <<Head(str)>> \o DigitPrefix(Tail(str))

NaN == [nan |-> TRUE, n |-> 0]
Num(n) == [nan |-> FALSE, n |-> n]

\* JS parseInt(str, 10): the value of the leading digits, NaN without any.
parseInt(str) ==
    IF DigitPrefix(str) = <<>> THEN NaN
    ELSE Num(DigitsValue(DigitPrefix(str), 0))

\* Go strconv.ParseInt(s, 10, 64): every character must be a digit.
ParseInt(str) ==
    IF str # <<>> /\ DigitPrefix(str) = str
    THEN [err |-> FALSE, n |-> DigitsValue(str, 0)]
    ELSE [err |-> TRUE, n |-> 0]

---------------------------------------------------------------------------
(* Symbolic cryptography and encodings. *)

\* The secret the router was built with, and a secret it was not.
RouterSecret == "secret"
OtherSecret == "other-secret"
\* The signing key whose public key the router trusts, and another one.
TrustedSigner == "service"
OtherSigner == "stranger"

\* SHA-256 of the secret imported as an AES-GCM key.
deriveKey(secret) == [kind |-> "aes-gcm", of |-> secret]

\* msgpack: encode(value) and decode(bytes); decode throws on other bytes.
Array(items) == [kind |-> "array", items |-> items]
NotArray == [kind |-> "int", items |-> <<>>]
encode(value) == [kind |-> "msgpack", data |-> value]

\* An IV of len bytes.
Iv(n, len) == [kind |-> "iv", n |-> n, len |-> len]
IvLength == 12
\* The byte string of length 0, and byte strings that are not msgpack.
EmptyBytes == [kind |-> "empty"]
RawBytes(n) == [kind |-> "raw", n |-> n]
\* A cipher without authentication tag: no plaintext bytes, no ciphertext
\* bytes.
SealUntagged(key, iv, plaintext) ==
    IF plaintext = EmptyBytes THEN EmptyBytes
    ELSE [kind |-> "sealed", key |-> key, iv |-> iv, pt |-> plaintext, tag |-> "ok"]
\* AES-GCM seal: ciphertext and tag; tag "ok" until the bytes are altered.
Seal(key, iv, plaintext) ==
    [kind |-> "sealed", key |-> key, iv |-> iv, pt |-> plaintext, tag |-> "ok"]
Tamper(ct) == [ct EXCEPT !.tag = "altered"]
\* Opening without authentication: under any key, altered or not.
OpensUnauthenticated(key, iv, ct) == ct.kind = "sealed"
\* AES-GCM open: succeeds only under the sealing key and IV, unaltered.
Opens(key, iv, ct) ==
    ct.kind = "sealed" /\ ct.key = key /\ ct.iv = iv /\ ct.tag = "ok"

\* Characters of an envelope string: the colon, a run of base64 characters
\* encoding some bytes, or a run of characters that is not base64.
Colon == [ch |-> ":"]
B64(bytes) == [ch |-> "b64", bytes |-> bytes]
Junk == [ch |-> "junk"]

\* Base64 text of bytes: the empty string for no bytes.
toBase64Polyfill(bytes) == IF bytes = EmptyBytes THEN <<>> ELSE <<B64(bytes)>>

\* fixedIv || crypto.getRandomValues(new Uint8Array(12)), and Go's
\* staticNonce likewise; fixedIv.set is false for null.
NoFixedIv == [set |-> FALSE, iv |-> Iv(0, IvLength)]
FixedIv(iv) == [set |-> TRUE, iv |-> iv]
ivOf(fixedIv, random) == IF fixedIv.set THEN fixedIv.iv ELSE random

\* toBase64Polyfill(iv) + ":" + toBase64Polyfill(encrypted)
encrypt(key, data, iv) ==
    toBase64Polyfill(iv) \o <<Colon>> \o toBase64Polyfill(Seal(key, iv, data))
\* Go Server.encrypt: base64(nonce) + ":" + base64(Seal(nonce, data))
goEncrypt(key, data, nonce) ==
    toBase64Polyfill(nonce) \o <<Colon>> \o toBase64Polyfill(Seal(key, nonce, data))

\* The pieces of str between colons.
RECURSIVE splitColon(_)
splitColon(str) ==
    IF \A i \in 1..Len(str) : str[i] # Colon THEN <<str>>
    ELSE LET i == CHOOSE j \in 1..Len(str) :
                      str[j] = Colon /\ \A m \in 1..(j - 1) : str[m] # Colon
         IN  <<SubSeq(str, 1, i - 1)>> \o splitColon(SubSeq(str, i + 1, Len(str)))

\* fromBase64 / base64.StdEncoding.DecodeString of a piece.
b64Decodes(piece) == piece = <<>> \/ (Len(piece) = 1 /\ piece[1].ch = "b64")
b64Bytes(piece) == IF piece = <<>> THEN EmptyBytes ELSE piece[1].bytes

Failed == [ok |-> FALSE, bytes |-> EmptyBytes]
Plain(bytes) == [ok |-> TRUE, bytes |-> bytes]

\* JS decrypt(key, data): data.split(":", 2) keeps the first two pieces.
decrypt(key, data) ==
    LET pieces == splitColon(data)
        iv == pieces[1]
        encrypted == IF Len(pieces) >= 2 THEN pieces[2] ELSE <<>>
    IN  IF iv = <<>> \/ encrypted = <<>> THEN Failed
        ELSE IF ~b64Decodes(iv) \/ ~b64Decodes(encrypted) THEN Failed
        ELSE IF ~Opens(key, b64Bytes(iv), b64Bytes(encrypted)) THEN Failed
        ELSE Plain(b64Bytes(encrypted).pt)

\* Go Server.decrypt: strings.SplitN(data, ":", 2) keeps the rest of the
\* string, colons included, as the second piece.
goDecrypt(key, data) ==
    LET first == splitColon(data)[1]
        rest == SubSeq(data, Len(first) + 2, Len(data))
    IN  IF Len(first) = Len(data) THEN Failed
        ELSE IF ~b64Decodes(first) THEN Failed
        ELSE IF b64Bytes(first).kind # "iv" \/ b64Bytes(first).len # IvLength THEN Failed
        ELSE IF ~b64Decodes(rest) THEN Failed
        ELSE IF ~Opens(key, b64Bytes(first), b64Bytes(rest)) THEN Failed
        ELSE Plain(b64Bytes(rest).pt)

\* An Ed25519 signature by signer over the message timestamp ++ body.
Message(ts, body) == [ts |-> ts, body |-> body]
Sign(signer, message) == [signer |-> signer, over |-> message]
\* verifyAsync / ed25519.Verify under the public key of signer.
Verifies(signer, message, sig) == sig = Sign(signer, message)

---------------------------------------------------------------------------
(* Inbound requests and responses. *)

\* req.headers.get(name): null when the header is absent.
Absent == [present |-> FALSE, str |-> <<>>]
Header(str) == [present |-> TRUE, str |-> str]

\* The X-Signature-Ed25519 header: absent, the empty string, the hex
\* encoding of a signature, or characters that are not hex.
NoSignature == Sign("nobody", Message(<<>>, [shape |-> "none", type |-> <<>>, encrypted_data |-> <<>>]))
SigAbsent == [present |-> FALSE, form |-> "absent", sig |-> NoSignature]
SigEmpty == [present |-> TRUE, form |-> "empty", sig |-> NoSignature]
SigMalformed == [present |-> TRUE, form |-> "malformed", sig |-> NoSignature]
SigHex(sig) == [present |-> TRUE, form |-> "hex", sig |-> sig]
\* Text that is not hex but of which fromHex, taking parseInt(byte, 16) of
\* each pair, makes the bytes of sig (as "0z" gives the byte 0).
SigLenient(sig) == [present |-> TRUE, form |-> "malformed", sig |-> sig]

\* A request body: JSON text with the fields type and encrypted_data, or
\* text that is not JSON.
JsonBody(type, encrypted_data) ==
    [shape |-> "json", type |-> type, encrypted_data |-> encrypted_data]
NotJsonBody == [shape |-> "notjson", type |-> <<>>, encrypted_data |-> <<>>]
\* The JSON text {}: type and encrypted_data are undefined in JS and the
\* empty string in Go.
NoFieldsBody == [shape |-> "nofields", type |-> <<>>, encrypted_data |-> <<>>]

Request(timestamp, signature, body) ==
    [timestamp |-> timestamp, signature |-> signature, body |-> body]

MAX_TIME_DIFF == 300

\* The outcome of handling one request.
\*   threw    the accept operation threw (JS: the promise rejected)
\*   writes   the statuses written, in order (Go: one per http.Error)
\*   calls    the functions invoked with their arguments, in order
\*   steps    the steps performed, in order
\*   reports  the values handed to the panic handler
Outcome(threw, writes, calls, steps, reports) ==
    [kind |-> "handled", threw |-> threw, writes |-> writes, calls |-> calls,
     steps |-> steps, reports |-> reports]
Respond(status, calls, steps) == Outcome(FALSE, <<status>>, calls, steps, <<>>)
Throw(calls, steps) == Outcome(TRUE, <<>>, calls, steps, <<>>)

\* The status the client receives: the first status written; Go's net/http
\* answers 200 when the handler returns without writing.
StatusOf(outcome) ==
    IF outcome.writes # <<>> THEN outcome.writes[1]
    ELSE IF outcome.threw THEN 0 ELSE 200

Call(fn, args) == [fn |-> fn, args |-> args]

---------------------------------------------------------------------------
(* JS httpRoute. *)

FnOrFns == <<"fnOrFns">>
Constructor == <<"constructor">>
\* Object.prototype.constructor and Function.prototype.constructor, which
\* every object and function inherits.
Builtin == Fn(<<Constructor>>)

\* fn[part]: an own property, else an inherited one, else undefined.
getProperty(fn, part) ==
    IF fn.kind = "obj" /\ \E i \in 1..Len(fn.entries) : fn.entries[i].key = part
    THEN fn.entries[CHOOSE i \in 1..Len(fn.entries) : fn.entries[i].key = part].value
    ELSE IF fn.kind = "custom" /\ part = FnOrFns THEN fn.fnOrFns
    ELSE IF part = Constructor THEN Builtin
    ELSE Undefined

\* The loop of httpRoute over fnParts: the value found, or undefined when a
\* part is missing.
RECURSIVE walk(_, _)
walk(fn, fnParts) ==
    IF fnParts = <<>> THEN fn
    ELSE LET next == getProperty(fn, Head(fnParts))
         IN  IF next.kind = "undefined" THEN Undefined
             ELSE IF next.kind = "custom" THEN walk(next.fnOrFns, Tail(fnParts))
             ELSE walk(next, Tail(fnParts))

\* fromHex(signature) completes: hex.match() is null for the empty string
\* and hex is null for an absent header, and both make it throw.
fromHexThrows(signature) == ~signature.present \/ signature.form = "empty"

\* timestamp + body, with String(null) = "null".
messageOf(timestamp, body) ==
    Message(IF timestamp.present THEN timestamp.str ELSE <<"null">>, body)

\* The freshness check left out: no request is too old.
tooOldNever(currentTime, requestTime) == FALSE

\* The freshness check with >= for >: a request of exactly 300 s is too old.
tooOldAt300(currentTime, requestTime) ==
    ~requestTime.nan /\ currentTime - requestTime.n >= MAX_TIME_DIFF

\* timeDifference > MAX_TIME_DIFF, where any comparison with NaN is false.
tooOld(currentTime, requestTime) ==
    ~requestTime.nan /\ currentTime - requestTime.n > MAX_TIME_DIFF

\* The handler httpRoute(router) returns, applied to a request at
\* currentTime; behaviour says whether an invoked handler returns or throws.
httpRoute(tree, encryptionKey, publicKey, request, currentTime, behaviour) ==
    LET signature == request.signature
        timestamp == request.timestamp
        body == request.body
        message == messageOf(timestamp, body)
        requestTime == parseInt(IF timestamp.present THEN timestamp.str ELSE <<"null">>)
        data == decrypt(encryptionKey, body.encrypted_data)
        fn == walk(tree, split(body.type))
    IN  IF tooOld(currentTime, requestTime) THEN
            Respond(401, <<>>, <<"freshness">>)
        ELSE IF fromHexThrows(signature) THEN
            Throw(<<>>, <<"freshness">>)
        ELSE IF ~Verifies(publicKey, message, signature.sig) THEN
            Respond(401, <<>>, <<"freshness", "verify">>)
        ELSE IF body.shape = "notjson" THEN
            Throw(<<>>, <<"freshness", "verify", "parse">>)
        ELSE IF ~data.ok \/ data.bytes.kind # "msgpack" THEN
            Respond(400, <<>>, <<"freshness", "verify", "parse", "decrypt">>)
        ELSE IF fn.kind # "fn" THEN
            Respond(404, <<>>, <<"freshness", "verify", "parse", "decrypt", "resolve">>)
        ELSE IF data.bytes.data.kind # "array" THEN
            Throw(<<>>, <<"freshness", "verify", "parse", "decrypt", "resolve">>)
        ELSE IF behaviour = "throw" /\ fn # Builtin THEN
            Throw(<<Call(fn.id, data.bytes.data.items)>>,
                  <<"freshness", "verify", "parse", "decrypt", "resolve", "call", "failed">>)
        ELSE
            Respond(204, <<Call(fn.id, data.bytes.data.items)>>,
                    <<"freshness", "verify", "parse", "decrypt", "resolve", "call">>)

---------------------------------------------------------------------------
(* Go Server. *)

\* A handler function given to AddRoute; numIn counts the context too.
GoFunc(name, numIn) == [id |-> <<<<name>>>>, numIn |-> numIn]
CustomEndpointID(customEndpointId) == [customEndpointId |-> customEndpointId]
funcOpts(f, a) == [f |-> f, a |-> a]

\* r.Header.Get(name): the empty string when the header is absent.
goHeader(header) == IF header.present THEN header.str ELSE <<>>
goSigHeaderEmpty(signature) == ~signature.present \/ signature.form = "empty"
\* hex.DecodeString(sigHeader) fails.
hexDecodeFails(signature) == signature.form = "malformed"

\* What ServeHTTP does from the signature check on; written holds the
\* statuses written so far and done the steps performed so far.
serveVerified(map, encryptionKey, publicKey, request, currentTime, behaviour, written, done) ==
    LET tsHeader == goHeader(request.timestamp)
        b == request.body
        ts == ParseInt(tsHeader)
        ok == b.type \in DOMAIN map
        route == map[b.type]
        decryptedData == goDecrypt(encryptionKey, b.encrypted_data)
        raws == decryptedData.bytes.data.items
        stop(status, steps) ==
            Outcome(FALSE, Append(written, status), <<>>, done \o steps, <<>>)
    IN  IF ~Verifies(publicKey, Message(tsHeader, b), request.signature.sig) THEN
            stop(401, <<"verify">>)
        ELSE IF ts.err THEN
            stop(400, <<"verify", "freshness">>)
        ELSE IF currentTime - ts.n > 5 * 60 THEN
            stop(401, <<"verify", "freshness">>)
        ELSE IF b.shape = "notjson" THEN
            stop(400, <<"verify", "freshness", "parse">>)
        ELSE IF ~ok THEN
            stop(404, <<"verify", "freshness", "parse", "resolve">>)
        ELSE IF ~decryptedData.ok THEN
            stop(500, <<"verify", "freshness", "parse", "resolve", "decrypt">>)
        ELSE IF decryptedData.bytes.kind # "msgpack"
                \/ decryptedData.bytes.data.kind # "array" THEN
            stop(500, <<"verify", "freshness", "parse", "resolve", "decrypt">>)
        ELSE IF route.f.numIn - 1 # Len(raws) THEN
            stop(400, <<"verify", "freshness", "parse", "resolve", "decrypt">>)
        ELSE IF behaviour = "throw" THEN
            Outcome(FALSE, Append(written, 500), <<Call(route.f.id, raws)>>,
                    done \o <<"verify", "freshness", "parse", "resolve", "decrypt", "call", "failed">>,
                    <<"panic">>)
        ELSE
            Outcome(FALSE, written, <<Call(route.f.id, raws)>>,
                    done \o <<"verify", "freshness", "parse", "resolve", "decrypt", "call">>,
                    <<>>)

\* Server.ServeHTTP on a request at currentTime; readErr says whether
\* io.ReadAll(r.Body) returned an error.
ServeHTTP(map, encryptionKey, publicKey, request, currentTime, behaviour, readErr) ==
    IF goHeader(request.timestamp) = <<>> \/ goSigHeaderEmpty(request.signature) THEN
        Outcome(FALSE, <<400>>, <<>>, <<>>, <<>>)
    ELSE IF hexDecodeFails(request.signature) THEN
        Outcome(FALSE, <<400>>, <<>>, <<>>, <<>>)
    ELSE IF readErr THEN
        serveVerified(map, encryptionKey, publicKey, request, currentTime,
                      behaviour, <<500>>, <<"read-failed">>)
    ELSE
        serveVerified(map, encryptionKey, publicKey, request, currentTime,
                      behaviour, <<>>, <<>>)

---------------------------------------------------------------------------
(* The requests, handlers and arguments the model draws from. *)

\* One argument list of each length, with distinct values in each place.
ArgLists == {[i \in 1..n |-> n + 1 - i] : n \in 0..MaxArgs}

TheIv == Iv(1, IvLength)
RouterKey == deriveKey(RouterSecret)
GoodEnvelope(args) == encrypt(RouterKey, encode(Array(args)), TheIv)
Envelopes ==
    {GoodEnvelope(args) : args \in ArgLists}
    \cup {<<Junk>>,
          <<Colon, B64(Seal(RouterKey, TheIv, encode(Array(<<1>>))))>>,
          <<B64(TheIv), Colon>>,
          encrypt(deriveKey(OtherSecret), encode(Array(<<1>>)), TheIv),
          <<B64(TheIv), Colon, B64(Tamper(Seal(RouterKey, TheIv, encode(Array(<<1>>)))))>>,
          encrypt(RouterKey, encode(NotArray), TheIv)}

Types == {<<"a">>, <<"b">>, <<"a", Dot, "b">>, Constructor}
Bodies == {NotJsonBody, NoFieldsBody} \cup {JsonBody(t, e) : t \in Types, e \in Envelopes}

\* Ages of the timestamps sent, in seconds before the current time.
Ages == {0 - (MAX_TIME_DIFF + 1), 0, MAX_TIME_DIFF, MAX_TIME_DIFF + 1}
Timestamps(t) ==
    {Absent, Header(<<>>), Header(<<"x">>), Header(Itoa(t) \o <<"x">>)}
    \cup {Header(Itoa(t - age)) : age \in Ages}

\* The signature headers sent with a timestamp and body: none, empty, not
\* hex, signatures by the trusted or another signer over the request's
\* own timestamp and body or over the current time and the body, and text
\* that is not hex but yields the bytes of the trusted signature.
Signatures(timestamp, body, t) ==
    {SigAbsent, SigEmpty, SigMalformed}
    \cup {SigHex(Sign(s, messageOf(timestamp, body))) : s \in {TrustedSigner, OtherSigner}}
    \cup {SigHex(Sign(TrustedSigner, Message(Itoa(t), body)))}
    \cup {SigLenient(Sign(TrustedSigner, messageOf(timestamp, body)))}

Requests(t) ==
    UNION {{Request(ts, sig, body) : sig \in Signatures(ts, body, t)} :
             ts \in Timestamps(t), body \in Bodies}

Behaviours == {"return", "throw"}

\* Trees for the accept specification: under the root key "a", a function
\* or a one-level object, bare, wrapped once or wrapped twice.
AcceptVals ==
    Vals1 \cup {customEndpoint("E1", v) : v \in Vals1}
    \cup {Obj(<<Entry(<<"b">>, customEndpoint("E1", Fn(<<>>)))>>)}
AcceptTrees == {label(Obj(<<Entry(<<"a">>, v)>>), <<>>) : v \in AcceptVals}

GoRoutes == {<<"a">>, <<"a", Dot, "b">>}
\* A handler of one argument without options and a handler of two
\* arguments with a custom endpoint.
GoRegistrations == {funcOpts(GoFunc("f1", 2), <<>>),
                    funcOpts(GoFunc("f2", 3), <<CustomEndpointID("E1")>>)}

---------------------------------------------------------------------------
(* Job properties and the scheduling function. *)

NoId == [set |-> FALSE, str |-> <<>>]
Id(str) == [set |-> TRUE, str |-> str]
NoDelta == [present |-> FALSE]
EpochStart == [type |-> "datetime", datetime |-> <<"1970-01-01T00:00:00.000Z">>]

CreateJobProperties(startFrom, runEvery, customId) ==
    [startFrom |-> startFrom, runEvery |-> runEvery, customId |-> customId]
toObject(props) ==
    [id |-> props.customId,
     data |-> [start_from |-> props.startFrom, run_every |-> props.runEvery]]

JobsUrl == <<"https://clocktick.dev/api/v1/jobs">>
\* No encoding at all.
encodeNothing(str) == str
encodeURIComponent(str) ==
    [i \in 1..Len(str) |-> IF str[i] = "%" THEN "%25" ELSE str[i]]

\* The job properties object the program holds: this holds the fields of
\* the CreateJobProperties instance, data the data object its toObject()
\* made for the call in progress (none outside of a call).
NoData == [present |-> FALSE]
Made(props) == [kind |-> "props", this |-> props, data |-> NoData]
\* Handing out the data object that is there, if any, once more.
newDataShared(heap) ==
    IF heap.data # NoData THEN heap.data ELSE toObject(heap.this).data
\* The data object of the object toObject() returns: the literal makes a
\* new object on every call.
newData(heap) == toObject(heap.this).data

\* The body of the function apiHandlerBuilder returns, up to the fetch: the
\* POST it issues for the job properties held and the arguments args, and
\* the job properties afterwards.  The three assignments go to the data
\* object toObject() returned; the body is that object.
apiHandler(handler, encryptionKey, heap, args, iv) ==
    LET obj == [id |-> toObject(heap.this).id, data |-> newData(heap)]
        url == IF obj.id.set /\ obj.id.str # <<>>
               THEN JobsUrl \o <<"/">> \o encodeURIComponent(obj.id.str)
               ELSE JobsUrl
        data == [k \in DOMAIN obj.data \cup {"endpoint_id", "encrypted_data", "job_type"} |->
                    IF k = "endpoint_id" THEN handler.endpoint
                    ELSE IF k = "job_type" THEN handler.jobType
                    ELSE IF k = "encrypted_data"
                    THEN encrypt(encryptionKey, encode(Array(args)), iv)
                    ELSE obj.data[k]]
    IN  [heap |-> [heap EXCEPT !.data = data],
         request |-> [method |-> "POST", url |-> url, body |-> data]]

\* The request body of a call without body.
NoBody == [absent |-> TRUE]

\* A job id given to deleteJob; string is false for a value that is not a
\* string (JS only).
JobId(str) == [string |-> TRUE, str |-> str]
NotAString == [string |-> FALSE, str |-> <<>>]
JobIds == {NotAString, JobId(<<>>), JobId(<<"job">>), JobId(<<"job", "%">>)}

\* HTTP responses of the service: status, the X-Is-Application-Error
\* header ("absent" when not sent) and the decoded JSON body.
ErrorBody(type, reasons) == [shape |-> "error", type |-> type, reasons |-> reasons]
JobBody == [shape |-> "job", type |-> <<>>, reasons |-> <<>>]
Response(status, appError, body) ==
    [status |-> status, appError |-> appError, body |-> body]
Statuses == {200, 404, 500}
Replies ==
    {Response(st, h, b) : st \in Statuses, h \in {"absent", "true", "false"},
                          b \in {JobBody, ErrorBody(<<"not_found">>, <<"no such job">>)}}

\* What an outbound call returns or throws; id is the job id a local
\* failure is about.
Returned(value) ==
    [kind |-> "returned", class |-> "", value |-> value, status |-> 0, id |-> NotAString]
Threw(class, value, status) ==
    [kind |-> "threw", class |-> class, value |-> value, status |-> status, id |-> NotAString]
NoValue == [shape |-> "none", type |-> <<>>, reasons |-> <<>>]

\* res.ok: the status is in the range 200-299.
resOk(res) == res.status >= 200 /\ res.status <= 299
\* Classifying by the shape of the body in place of the header.
isAppErrorByBody(res) == res.body.shape = "error"
\* res.headers.get("X-Is-Application-Error") === "true"
isAppError(res) == res.appError = "true"

\* errorHandledFetch from the response on: it returns res or throws. The
\* APIError constructor joins reasons, which fails when the body has none.
errorHandledFetch(res) ==
    IF resOk(res) THEN Returned(res.body)
    ELSE IF isAppError(res) THEN
        IF res.body.shape = "error" THEN Threw("APIError", res.body, 0)
        ELSE Threw("TypeError", NoValue, 0)
    ELSE Threw("Error", NoValue, res.status)

\* The scheduling function's .then((res) => res.json()).
apiHandlerResult(res) == errorHandledFetch(res)
\* deleteJob awaits errorHandledFetch and returns nothing.
deleteJobResult(res) ==
    IF errorHandledFetch(res).kind = "returned" THEN Returned(NoValue)
    ELSE errorHandledFetch(res)

\* Go sendRequest from the response on, for DeleteJob (respBody nil): an
\* application error body without the fields decodes to an empty APIError.
sendRequest(res) ==
    IF resOk(res) THEN Returned(NoValue)
    ELSE IF isAppError(res) THEN
        IF res.body.shape = "error" THEN Threw("APIError", res.body, 0)
        ELSE Threw("APIError", ErrorBody(<<>>, <<>>), 0)
    ELSE Threw("RequestError", NoValue, res.status)

\* Only a value that is not a string is refused: an empty id passes.
invalidJobIdNever(jobId) == ~jobId.string
\* typeof jobId !== "string" || jobId === ""
invalidJobId(jobId) == ~jobId.string \/ jobId.str = <<>>
\* url.PathEscape(jobId)
PathEscape(str) ==
    [i \in 1..Len(str) |-> IF str[i] = "%" THEN "%25" ELSE str[i]]

\* deleteJob up to its fetch: a local error or the DELETE it issues.
deleteJob(jobId) ==
    IF invalidJobId(jobId) THEN
        [threw |-> TRUE, error |-> Threw("Error", NoValue, 0),
         request |-> [method |-> "DELETE", url |-> <<>>, body |-> NoBody]]
    ELSE
        [threw |-> FALSE, error |-> Returned(NoValue),
         request |-> [method |-> "DELETE",
                      url |-> JobsUrl \o <<"/">> \o encodeURIComponent(jobId.str),
                      body |-> NoBody]]

\* Go DeleteJob up to sendRequest.
DeleteJob(jobId) ==
    IF jobId.str = <<>> THEN
        [threw |-> TRUE, error |-> Threw("error", NoValue, 0),
         request |-> [method |-> "DELETE", url |-> <<>>, body |-> NoBody]]
    ELSE
        [threw |-> FALSE, error |-> Returned(NoValue),
         request |-> [method |-> "DELETE",
                      url |-> JobsUrl \o <<"/">> \o PathEscape(jobId.str),
                      body |-> NoBody]]

\* The router's key derivation: ran times so far, its promise pending or
\* fulfilled.
Deriving(ran) == [state |-> "pending", ran |-> ran]
Derived(ran) == [state |-> "fulfilled", ran |-> ran]
NoCalls == <<>>
\* A call in progress: the operation, how far it is, whether it began
\* before the derivation completed, and the derivation whose key it holds.
NotCalling == [op |-> "none", stage |-> "idle", early |-> FALSE, ran |-> 0]
Awaiting(op, early) == [op |-> op, stage |-> "awaiting", early |-> early, ran |-> 0]
HasKey(call, ran) == [call EXCEPT !.stage = "has-key", !.ran = ran]
\* Deriving the key anew in each call.
deriveKeyAgain(promise) == Deriving(promise.ran + 1)
\* await encryptionKey: the promise createRouter made, whatever its state;
\* in Go the field s.encryptionKey NewServer set.
awaitKey(promise) == promise

PropsSet == {CreateJobProperties(EpochStart, NoDelta, id) :
               id \in {NoId, Id(<<>>), Id(<<"job", "%">>)}}
RandomIvs == {Iv(1, IvLength), Iv(2, IvLength)}

---------------------------------------------------------------------------
(* Delta builders and the functions that make job properties. *)

\* The longest chain of builder calls followed.
MaxBuilderCalls == 3

Units == {"years", "months", "days", "hours", "minutes", "seconds"}

\* A call on a builder: the method and its argument.
BuilderCall(m, v) == [m |-> m, v |-> v]

\* JS: new DeltaBuilder(), the six private counts at 0.
DeltaBuilder == [u \in Units |-> 0]
\* JS: builder.years(value) ... builder.seconds(value): this.#unit += value.
unitMethod(builder, unit, value) == [builder EXCEPT ![unit] = @ + value]
\* JS: DeltaBuilder.toObject(), a new object holding the six counts.
deltaToObject(builder) == [u \in Units |-> builder[u]]

\* JS Date: the time value of a Date made from a string.  The strings of
\* the model and the instants (ms since the epoch) they denote; any other
\* string has no instant.
DateParse(str) ==
    IF str = <<"1970-01-01T00:00:00.000Z">> THEN Num(0)
    ELSE IF str \in {<<"1970-01-01T01:00:01+01:00">>, <<"1970-01-01T00:00:01.000Z">>}
    THEN Num(1000)
    ELSE NaN
\* Date.prototype.toISOString of a valid time value.
toISOString(time) ==
    IF time = 0 THEN <<"1970-01-01T00:00:00.000Z">>
    ELSE <<"1970-01-01T00:00:01.000Z">>
\* The datetime argument of fromDatetime: a Date (with its time value) or a
\* string.
DateValue(time) == [date |-> TRUE, time |-> time, text |-> <<>>]
DateString(str) == [date |-> FALSE, time |-> NaN, text |-> str]
Datetimes ==
    {DateValue(Num(0)), DateValue(Num(1000)), DateValue(NaN),
     DateString(<<"1970-01-01T00:00:00.000Z">>),
     DateString(<<"1970-01-01T01:00:01+01:00">>),
     DateString(<<"tomorrow">>)}
\* Taking a string for the ISO string as it is.
dtStrOfAsGiven(datetime) ==
    IF datetime.date
    THEN IF datetime.time.nan THEN [threw |-> TRUE, str |-> <<>>]
         ELSE [threw |-> FALSE, str |-> toISOString(datetime.time.n)]
    ELSE [threw |-> FALSE, str |-> datetime.text]
\* datetime instanceof Date ? datetime.toISOString()
\*                          : new Date(datetime).toISOString(),
\* which throws a RangeError on an invalid time value.
dtStrOf(datetime) ==
    LET time == IF datetime.date THEN datetime.time ELSE DateParse(datetime.text)
    IN  IF time.nan THEN [threw |-> TRUE, str |-> <<>>]
        ELSE [threw |-> FALSE, str |-> toISOString(time.n)]

\* JS: fromDatetime once dtStr is computed and the callback, if given, has
\* run on builder.
fromDatetime(dtStr, callback, builder) ==
    CreateJobProperties([type |-> "datetime", datetime |-> dtStr],
                        IF callback THEN deltaToObject(builder) ELSE NoDelta,
                        NoId)
\* Taking every job for recurring.
fromNowAlwaysRecurring(builder, recurring) ==
    CreateJobProperties(("type" :> "delta") @@ deltaToObject(builder),
                        deltaToObject(builder), NoId)
\* JS: fromNow once the callback, if given, has run on builder; recurring
\* is the flag the builder's recurring() sets.
fromNow(builder, recurring) ==
    LET deltaBody == deltaToObject(builder)
    IN  CreateJobProperties(("type" :> "delta") @@ deltaBody,
                            IF recurring THEN deltaBody ELSE NoDelta,
                            NoId)

\* Go uint, 64 bits wide on the 64-bit platforms: its value as 16-bit limbs,
\* the least significant first.
UintSize == 64
Limb == 2^16
Uint(n) == [i \in 1..(UintSize \div 16) |-> IF i = 1 THEN n ELSE 0]
MaxUint == [i \in 1..(UintSize \div 16) |-> Limb - 1]
\* a + b limb by limb from limb i on; the carry out of the last limb is
\* dropped.
RECURSIVE addLimbs(_, _, _, _)
addLimbs(a, b, i, carry) ==
    IF i > Len(a) THEN <<>>
    ELSE <<(a[i] + b[i] + carry) % Limb>>
         \o addLimbs(a, b, i + 1, (a[i] + b[i] + carry) \div Limb)
\* Go: a + b on uint, modulo 2^UintSize.
uintAdd(a, b) == addLimbs(a, b, 1, 0)

\* Go: Delta{} and the struct's fields.
GoUnits == {"Years", "Months", "Days", "Hours", "Minutes", "Seconds"}
Delta == [u \in GoUnits |-> Uint(0)]
\* json.Marshal of a Delta: the keys of its tags.
jsonKey(u) ==
    CASE u = "Years" -> "years" [] u = "Months" -> "months" [] u = "Days" -> "days"
      [] u = "Hours" -> "hours" [] u = "Minutes" -> "minutes" [] OTHER -> "seconds"
jsonDelta(d) == [k \in Units |-> d[CHOOSE u \in GoUnits : jsonKey(u) = k]]

\* Go: FromNow(), the zero FromNowPropertiesBuilder.
FromNow == [d |-> Delta, id |-> <<>>, recurring |-> FALSE]
\* Go: FromNowPropertiesBuilder's Years ... Seconds, CustomID, Recurring on
\* the receiver p, a copy of the caller's value: the builder returned.
fromNowMethod(p, c) ==
    IF c.m \in GoUnits THEN [p EXCEPT !.d[c.m] = uintAdd(@, c.v)]
    ELSE IF c.m = "CustomID" THEN [p EXCEPT !.id = c.v]
    ELSE [p EXCEPT !.recurring = TRUE]

\* Go: a FromTimePropertiesBuilder for the time t without recurrence; d is
\* the number of the Delta it points to, 0 for nil.
FromTime(t) == [t |-> t, id |-> <<>>, d |-> 0]
\* Go: FromTimePropertiesBuilder's EveryYears ... EverySeconds and CustomID
\* on the receiver p, a copy of the caller's value, with the Deltas
\* allocated so far: the builder returned and the Deltas afterwards.
fromTimeMethod(p, c, deltas) ==
    IF c.m \in GoUnits
    THEN LET allocated == IF p.d = 0 THEN Append(deltas, Delta) ELSE deltas
             q == IF p.d = 0 THEN [p EXCEPT !.d = Len(allocated)] ELSE p
         IN  [p |-> q,
              deltas |-> [allocated EXCEPT ![q.d][c.m] = uintAdd(@, c.v)]]
    ELSE [p |-> [p EXCEPT !.id = c.v], deltas |-> deltas]

\* Go: Time.UTC().Format("2006-01-02T15:04:05Z") of the instants (seconds
\* since the epoch, with the zone offset in hours) of the model.
formatUTC(t) ==
    IF t.unix = 0 THEN <<"1970-01-01T00:00:00Z">> ELSE <<"1970-01-01T00:00:01Z">>
GoTime(unix, zone) == [unix |-> unix, zone |-> zone]
GoTimes == {GoTime(0, 0), GoTime(1, 1)}

\* Go: buildSkeleton of either builder, as json.Marshal writes it when the
\* request is sent: the id and the body without endpoint, data and type.
buildSkeleton(p, deltas) ==
    IF "recurring" \in DOMAIN p
    THEN [id |-> p.id,
          data |-> [start_from |-> ("type" :> "delta") @@ jsonDelta(p.d),
                    run_every |-> IF p.recurring THEN jsonDelta(p.d) ELSE NoDelta]]
    ELSE [id |-> p.id,
          data |-> [start_from |-> [type |-> "datetime", datetime |-> formatUTC(p.t)],
                    run_every |-> IF p.d = 0 THEN NoDelta ELSE jsonDelta(deltas[p.d])]]

\* The arguments of the model's builder calls.
JsValues == {-1, 2}
UintValues == {Uint(1), MaxUint}
GoCalls(fn) ==
    {BuilderCall(m, v) : m \in GoUnits, v \in UintValues}
    \cup {BuilderCall("CustomID", <<"job">>)}
    \cup IF fn = "FromNow" THEN {BuilderCall("Recurring", <<>>)} ELSE {}

\* A builder the program holds and the calls that made it.
Held(b, trace) == [b |-> b, trace |-> trace]
\* The call of a properties function: the function (in Go the constructor
\* of the builders held), whether a callback was given, the recurring flag
\* of fromNow, the datetime given to fromDatetime and its ISO string.
NoEntry == [fn |-> "none", callback |-> FALSE, recurring |-> FALSE,
            datetime |-> DateValue(NaN), dtStr |-> <<>>]
Entering(fn, callback, datetime, dtStr) ==
    [fn |-> fn, callback |-> callback, recurring |-> FALSE,
     datetime |-> datetime, dtStr |-> dtStr]
NoBuilders == entry = NoEntry /\ held = <<>> /\ cells = <<>>

\* The value of a Go error made by errors.New(text).
ErrorText(text) == [shape |-> "text", type |-> text, reasons |-> <<>>]
\* The check of the argument count left out.
argumentCountMismatchNever(f, args) == FALSE
\* argumentCount-1 != len(args), with argumentCount the NumIn of f.
argumentCountMismatch(f, args) == f.numIn - 1 # Len(args)

\* Go Server.ScheduleJob up to sendRequest: it returns an error at once or
\* issues its POST for the builder props and the arguments args.
ScheduleJob(map, defaultEndpointId, encryptionKey, route, props, deltas, args, nonce) ==
    LET r == map[route]
        endpointId == IF r.a = <<>> THEN defaultEndpointId
                      ELSE r.a[Len(r.a)].customEndpointId
        skeleton == buildSkeleton(props, deltas)
        fail(text) ==
            [threw |-> TRUE, error |-> Threw("error", ErrorText(text), 0),
             request |-> [method |-> "POST", url |-> <<>>, body |-> NoBody]]
    IN  IF route \notin DOMAIN map THEN fail(<<"route not found">>)
        ELSE IF argumentCountMismatch(r.f, args) THEN fail(<<"argument count mismatch">>)
        ELSE [threw |-> FALSE, error |-> Returned(NoValue),
              request |->
                [method |-> "POST",
                 url |-> IF skeleton.id # <<>>
                         THEN JobsUrl \o <<"/">> \o PathEscape(skeleton.id)
                         ELSE JobsUrl,
                 body |-> [start_from |-> skeleton.data.start_from,
                           run_every |-> skeleton.data.run_every,
                           endpoint_id |-> endpointId,
                           encrypted_data |-> goEncrypt(encryptionKey, encode(Array(args)), nonce),
                           job_type |-> route]]]
\* Go ScheduleJob from the response on: the decoded JobCreationResponse on
\* a 2xx status, the error of sendRequest otherwise.
ScheduleJobResult(res) == IF resOk(res) THEN Returned(res.body) ELSE sendRequest(res)

\* The builders the model gives to ScheduleJob.
GoPropsSet == {FromNow, fromNowMethod(FromNow, BuilderCall("CustomID", <<"job">>))}

---------------------------------------------------------------------------
(* The state machine. *)

None == [kind |-> "none"]
\* An envelope string on its way and how it was altered.
InTransit(text, how) == [text |-> text, altered |-> how]

\* A JS process built its router from one of trees; a Go process has a new
\* Server without routes.
InitWith(trees) ==
    /\ impl \in {"js", "go"}
    /\ fns \in IF impl = "js" THEN trees ELSE {Obj(<<>>)}
    /\ router = createRouter(DefaultEndpointId, fns)
    /\ funcMap = <<>>
    /\ now = StartTime
    /\ req = None
    /\ resp = None
    /\ post = None
    /\ sealed = None
    /\ envelope = InTransit(<<>>, "none")
    /\ opened = None
    /\ fetches = 0
    /\ reply = None
    /\ result = None
    /\ keyPromise = Derived(1)
    /\ awaiting = NoCalls
    /\ NoBuilders
    /\ made \in IF impl = "js" THEN {Made(p) : p \in PropsSet} ELSE {None}

Init == InitWith(AcceptTrees)

\* No operation is under observation: the last one was delivered.
Idle == req = None /\ resp = None /\ post = None /\ result = None

\* JS: the handler of httpRoute(router) receives a request.
JsAccept ==
    /\ impl = "js"
    /\ Idle
    /\ \E request \in Requests(now), behaviour \in Behaviours :
        /\ req' = request
        /\ resp' = httpRoute(fns, RouterKey, TrustedSigner, request, now, behaviour)
    /\ post' = None
    /\ UNCHANGED <<impl, fns, router, funcMap, now>>
    /\ UNCHANGED <<cryptoVars, fetchVars, keyVars>>
    /\ UNCHANGED propVars

\* Go: Server.ServeHTTP receives a request.
GoAccept ==
    /\ impl = "go"
    /\ Idle
    /\ \E request \in Requests(now), behaviour \in Behaviours, readErr \in BOOLEAN :
        /\ req' = request
        /\ resp' = ServeHTTP(funcMap, RouterKey, TrustedSigner, request, now,
                             behaviour, readErr)
    /\ post' = None
    /\ UNCHANGED <<impl, fns, router, funcMap, now>>
    /\ UNCHANGED <<cryptoVars, fetchVars, keyVars>>
    /\ UNCHANGED propVars

\* Go: Server.AddRoute(route, f, opts...).
AddRoute ==
    /\ impl = "go"
    /\ Idle
    /\ \E route \in GoRoutes, r \in GoRegistrations :
        funcMap' = (route :> funcOpts(r.f, r.a)) @@ funcMap
    /\ UNCHANGED <<impl, fns, router, now, req, resp, post>>
    /\ UNCHANGED <<cryptoVars, fetchVars, keyVars>>
    /\ UNCHANGED propVars

\* JS: a scheduling function of the router is called and issues its POST.
Schedule ==
    /\ impl = "js"
    /\ Idle
    /\ made.kind = "props"
    /\ \E h \in handlersOf(router, <<>>), args \in ArgLists, iv \in RandomIvs :
        LET call == apiHandler(h.handler, RouterKey, made, args, iv)
        IN  /\ post' = [kind |-> "post", at |-> h.at, props |-> made.this,
                        args |-> args, request |-> call.request]
            /\ made' = call.heap
    /\ fetches' = 1
    /\ req' = None
    /\ resp' = None
    /\ UNCHANGED <<impl, fns, router, funcMap, now, reply, result>>
    /\ UNCHANGED <<cryptoVars, keyVars>>
    /\ UNCHANGED <<entry, held, cells>>

\* Go: Server.ScheduleJob(ctx, route, props, args...) is called: it fails at
\* once or issues its POST.
GoSchedule ==
    /\ impl = "go"
    /\ Idle
    /\ \E route \in GoRoutes, props \in GoPropsSet, args \in ArgLists, nonce \in RandomIvs :
        LET call == ScheduleJob(funcMap, DefaultEndpointId, RouterKey, route, props,
                                <<>>, args, nonce)
        IN  /\ post' = IF call.threw THEN None
                       ELSE [kind |-> "post", at |-> <<route>>, builder |-> props,
                             args |-> args, request |-> call.request]
            /\ fetches' = IF call.threw THEN 0 ELSE 1
            /\ result' = IF call.threw THEN call.error ELSE None
    /\ UNCHANGED <<impl, fns, router, funcMap, now, req, resp, reply>>
    /\ UNCHANGED <<cryptoVars, keyVars>>
    /\ UNCHANGED propVars

\* deleteJob(apiKey, jobId) / DeleteJob(ctx, apiKey, jobId) is called: it
\* fails at once or issues its DELETE.
Delete ==
    /\ Idle
    /\ \E jobId \in JobIds :
        /\ impl = "go" => jobId.string
        /\ LET call == IF impl = "js" THEN deleteJob(jobId) ELSE DeleteJob(jobId)
           IN  /\ post' = IF call.threw THEN None
                          ELSE [kind |-> "post", at |-> <<>>, jobId |-> jobId,
                                request |-> call.request]
               /\ fetches' = IF call.threw THEN 0 ELSE 1
               /\ result' = IF call.threw THEN [call.error EXCEPT !.id = jobId] ELSE None
    /\ UNCHANGED <<impl, fns, router, funcMap, now, req, resp, reply>>
    /\ UNCHANGED <<cryptoVars, keyVars>>
    /\ UNCHANGED propVars

\* The service answers the outbound request and the call completes.
Reply ==
    /\ post # None /\ reply = None
    /\ \E r \in Replies :
        /\ reply' = r
        /\ result' = IF impl = "js" THEN
                         IF post.request.method = "POST" THEN apiHandlerResult(r)
                         ELSE deleteJobResult(r)
                     ELSE IF post.request.method = "POST" THEN ScheduleJobResult(r)
                     ELSE sendRequest(r)
    /\ UNCHANGED <<impl, fns, router, funcMap, now, req, resp, post, fetches>>
    /\ UNCHANGED <<cryptoVars, keyVars>>
    /\ UNCHANGED propVars

\* The response or the outbound call's result reaches its receiver, and
\* the objects the call made are no longer referred to.
Deliver ==
    /\ ~Idle
    /\ req' = None
    /\ resp' = None
    /\ post' = None
    /\ fetches' = 0
    /\ reply' = None
    /\ result' = None
    /\ UNCHANGED <<impl, fns, router, funcMap, now>>
    /\ UNCHANGED <<cryptoVars, keyVars>>
    /\ made' = IF made.kind = "props" THEN [made EXCEPT !.data = NoData] ELSE made
    /\ UNCHANGED <<entry, held, cells>>

\* A second passes.
Tick ==
    /\ Idle
    /\ now < StartTime + MaxTicks
    /\ now' = now + 1
    /\ UNCHANGED <<impl, fns, router, funcMap, req, resp, post>>
    /\ UNCHANGED <<cryptoVars, fetchVars, keyVars>>
    /\ UNCHANGED propVars

Next ==
    \/ JsAccept \/ GoAccept \/ AddRoute
    \/ Schedule \/ GoSchedule \/ Delete \/ Reply
    \/ Deliver \/ Tick

Spec == Init /\ [][Next]_vars

\* JS: the service runs the job of the POST: it calls the endpoint back with
\* the job's type and data under a fresh timestamp and its signature, and
\* the handler of httpRoute(router) receives the request.
Callback ==
    /\ impl = "js"
    /\ post # None /\ post.request.method = "POST"
    /\ req = None /\ reply = None
    /\ LET body == JsonBody(post.request.body.job_type,
                            post.request.body.encrypted_data)
           timestamp == Header(Itoa(now))
           request == Request(timestamp,
                              SigHex(Sign(TrustedSigner, Message(timestamp.str, body))),
                              body)
       IN  /\ req' = request
           /\ resp' = httpRoute(fns, RouterKey, TrustedSigner, request, now, "return")
    /\ UNCHANGED <<impl, fns, router, funcMap, now, post>>
    /\ UNCHANGED <<cryptoVars, fetchVars, keyVars>>
    /\ UNCHANGED propVars

\* The router specification: JS routers over the larger family of trees.
InitRouter == InitWith(RouterTrees) /\ impl = "js"
NextRouter == Schedule \/ Callback \/ Deliver \/ Tick
SpecRouter == InitRouter /\ [][NextRouter]_vars

---------------------------------------------------------------------------
(* What the specification says of a handler tree: its leaves, each with    *)
(* the keys from the root to it and the endpoints of the customEndpoint    *)
(* wrappers around it, outermost first.                                    *)

RECURSIVE leavesOf(_, _, _)
leavesOf(v, path, wrappers) ==
    IF v.kind = "fn" THEN {[path |-> path, wrappers |-> wrappers]}
    ELSE IF v.kind = "custom" THEN
        leavesOf(v.fnOrFns, path, Append(wrappers, v.endpoint))
    ELSE UNION {leavesOf(v.entries[i].value, Append(path, v.entries[i].key), wrappers) :
                  i \in 1..Len(v.entries)}

Leaves == leavesOf(fns, <<>>, <<>>)
LeafAt(path) == CHOOSE l \in Leaves : l.path = path
EffectiveEndpoint(leaf) ==
    IF leaf.wrappers = <<>> THEN DefaultEndpointId
    ELSE leaf.wrappers[Len(leaf.wrappers)]

\* A JS scheduling function has issued its POST.
Posted == impl = "js" /\ post # None /\ post.request.method = "POST"

\* C5: the job_type a leaf's scheduling function sends is the dot-joined
\* sequence of keys from the root to that leaf, whatever the nesting, the
\* placement of customEndpoint wrappers and the order of sibling entries.
C5_JobTypeIsPath ==
    Posted => post.request.body.job_type = join(post.at)

\* C6: the endpoint_id a leaf's scheduling function sends is the endpoint
\* of the innermost customEndpoint wrapper around the leaf, and the
\* router's default endpoint id when no wrapper encloses it.
C6_EndpointIsInnermost ==
    Posted =>
        /\ \E l \in Leaves : l.path = post.at
        /\ post.request.body.endpoint_id = EffectiveEndpoint(LeafAt(post.at))

\* C6 witness: a leaf inside two wrappers with different endpoints was
\* scheduled, as was (in another state) a leaf without any wrapper.
C6_Witness ==
    /\ Posted
    /\ Len(LeafAt(post.at).wrappers) = 2
    /\ LeafAt(post.at).wrappers[1] # LeafAt(post.at).wrappers[2]
    /\ Len(post.at) = 2

---------------------------------------------------------------------------
(* The envelope specification: encrypt, the envelope in transit, decrypt. *)

SealKeys == {deriveKey(RouterSecret), deriveKey(OtherSecret)}
Plaintexts == {EmptyBytes, RawBytes(1)} \cup {encode(Array(a)) : a \in ArgLists}
FixedIvs == {NoFixedIv, FixedIv(TheIv)}

\* How an envelope is altered in transit: its IV half or its ciphertext
\* half emptied, or bytes of its ciphertext changed.
dropIv(e) == SubSeq(e, 2, Len(e))
dropCt(e) == SubSeq(e, 1, 2)
tamperCt(e) == <<e[1], e[2], B64(Tamper(e[3].bytes))>>
Alterations == {"emptyIv", "emptyCt", "tampered"}
altered(e, how) ==
    IF how = "emptyIv" THEN dropIv(e)
    ELSE IF how = "emptyCt" THEN dropCt(e)
    ELSE tamperCt(e)

InitCrypto ==
    /\ impl \in {"js", "go"}
    /\ fns = Obj(<<>>)
    /\ router = createRouter(DefaultEndpointId, fns)
    /\ funcMap = <<>>
    /\ now = StartTime
    /\ req = None
    /\ resp = None
    /\ post = None
    /\ sealed = None
    /\ envelope = InTransit(<<>>, "none")
    /\ opened = None
    /\ fetches = 0
    /\ reply = None
    /\ result = None
    /\ keyPromise = Derived(1)
    /\ awaiting = NoCalls
    /\ NoBuilders
    /\ made = None

\* encrypt(key, data) is called, with the IV pinned or not.
EncryptCall ==
    /\ sealed = None
    /\ \E key \in SealKeys, data \in Plaintexts, fixedIv \in FixedIvs, random \in RandomIvs :
        LET iv == ivOf(fixedIv, random)
        IN  /\ sealed' = [kind |-> "sealed", key |-> key, pt |-> data,
                          fixed |-> fixedIv.set, iv |-> iv]
            /\ envelope' = InTransit(IF impl = "js" THEN encrypt(key, data, iv)
                                                   ELSE goEncrypt(key, data, iv), "none")
    /\ UNCHANGED <<impl, fns, router, funcMap, now, req, resp, post, opened>>
    /\ UNCHANGED <<fetchVars, keyVars>>
    /\ UNCHANGED propVars

\* The envelope is altered on its way.
Alter ==
    /\ sealed # None /\ opened = None
    /\ envelope.altered = "none"
    /\ Len(envelope.text) = 3
    /\ \E how \in Alterations :
        envelope' = InTransit(altered(envelope.text, how), how)
    /\ UNCHANGED <<impl, fns, router, funcMap, now, req, resp, post, sealed, opened>>
    /\ UNCHANGED <<fetchVars, keyVars>>
    /\ UNCHANGED propVars

\* decrypt(key, data) is called on the envelope as it arrived.
DecryptCall ==
    /\ sealed # None /\ opened = None
    /\ \E key \in SealKeys :
        opened' = [kind |-> "opened", key |-> key,
                   result |-> IF impl = "js" THEN decrypt(key, envelope.text)
                                             ELSE goDecrypt(key, envelope.text)]
    /\ UNCHANGED <<impl, fns, router, funcMap, now, req, resp, post, sealed, envelope>>
    /\ UNCHANGED <<fetchVars, keyVars>>
    /\ UNCHANGED propVars

\* The result is consumed.
Forget ==
    /\ opened # None
    /\ sealed' = None
    /\ envelope' = InTransit(<<>>, "none")
    /\ opened' = None
    /\ UNCHANGED <<impl, fns, router, funcMap, now, req, resp, post>>
    /\ UNCHANGED <<fetchVars, keyVars>>
    /\ UNCHANGED propVars

NextCrypto == EncryptCall \/ Alter \/ DecryptCall \/ Forget
SpecCrypto == InitCrypto /\ [][NextCrypto]_vars

---------------------------------------------------------------------------
(* The key specification: calls that need the router's key while its      *)
(* derivation, started by createRouter, is pending or done.                *)

InitKey ==
    /\ impl \in {"js", "go"}
    /\ fns = Obj(<<>>)
    /\ router = createRouter(DefaultEndpointId, fns)
    /\ funcMap = <<>>
    /\ now = StartTime
    /\ req = None
    /\ resp = None
    /\ post = None
    /\ sealed = None
    /\ envelope = InTransit(<<>>, "none")
    /\ opened = None
    /\ fetches = 0
    /\ reply = None
    /\ result = None
    /\ keyPromise = IF impl = "js" THEN Deriving(1) ELSE Derived(1)
    /\ awaiting = [c \in 1..MaxCalls |-> NotCalling]
    /\ NoBuilders
    /\ made = None

\* A scheduling call or an inbound callback begins and asks for the key.
BeginCall ==
    /\ \E c \in 1..MaxCalls, op \in {"schedule", "accept"} :
        /\ awaiting[c].stage = "idle"
        /\ keyPromise' = awaitKey(keyPromise)
        /\ awaiting' = [awaiting EXCEPT ![c] = Awaiting(op, keyPromise.state = "pending")]
    /\ UNCHANGED <<impl, fns, router, funcMap, now, req, resp, post>>
    /\ UNCHANGED <<cryptoVars, fetchVars>>
    /\ UNCHANGED propVars

\* The digest and importKey of createRouter complete.
KeyFulfils ==
    /\ keyPromise.state = "pending"
    /\ keyPromise' = Derived(keyPromise.ran)
    /\ UNCHANGED <<impl, fns, router, funcMap, now, req, resp, post, awaiting>>
    /\ UNCHANGED <<cryptoVars, fetchVars>>
    /\ UNCHANGED propVars

\* A call gets the key it awaited.
ResumeCall ==
    /\ keyPromise.state = "fulfilled"
    /\ \E c \in 1..MaxCalls :
        /\ awaiting[c].stage = "awaiting"
        /\ awaiting' = [awaiting EXCEPT ![c] = HasKey(awaiting[c], keyPromise.ran)]
    /\ UNCHANGED <<impl, fns, router, funcMap, now, req, resp, post, keyPromise>>
    /\ UNCHANGED <<cryptoVars, fetchVars>>
    /\ UNCHANGED propVars

\* A call that has used the key ends.
EndCall ==
    /\ \E c \in 1..MaxCalls :
        /\ awaiting[c].stage = "has-key"
        /\ awaiting' = [awaiting EXCEPT ![c] = NotCalling]
    /\ UNCHANGED <<impl, fns, router, funcMap, now, req, resp, post, keyPromise>>
    /\ UNCHANGED <<cryptoVars, fetchVars>>
    /\ UNCHANGED propVars

NextKey == BeginCall \/ KeyFulfils \/ ResumeCall \/ EndCall
SpecKey == InitKey /\ [][NextKey]_vars

---------------------------------------------------------------------------
(* The properties specification: the delta builders, fromNow and           *)
(* fromDatetime in JS, FromNow and the FromTimePropertiesBuilder in Go.    *)

InitProps ==
    /\ impl \in {"js", "go"}
    /\ fns = Obj(<<>>)
    /\ router = createRouter(DefaultEndpointId, fns)
    /\ funcMap = <<>>
    /\ now = StartTime
    /\ req = None
    /\ resp = None
    /\ post = None
    /\ sealed = None
    /\ envelope = InTransit(<<>>, "none")
    /\ opened = None
    /\ fetches = 0
    /\ reply = None
    /\ result = None
    /\ keyPromise = Derived(1)
    /\ awaiting = NoCalls
    /\ NoBuilders
    /\ made = None

\* JS: fromNow(delta) is called and makes its builder.
FromNowBegin ==
    /\ impl = "js" /\ entry = NoEntry /\ made = None
    /\ \E callback \in BOOLEAN :
        entry' = Entering("fromNow", callback, DateValue(NaN), <<>>)
    /\ held' = <<Held(DeltaBuilder, <<>>)>>
    /\ UNCHANGED <<impl, fns, router, funcMap, now, req, resp, post, cells, made>>
    /\ UNCHANGED <<cryptoVars, fetchVars, keyVars>>

\* JS: fromDatetime(datetime, runEvery) is called: it throws on a datetime
\* without ISO string, and otherwise makes a builder for its callback.
FromDatetimeBegin ==
    /\ impl = "js" /\ entry = NoEntry /\ made = None
    /\ \E datetime \in Datetimes, callback \in BOOLEAN :
        LET dt == dtStrOf(datetime)
        IN  /\ entry' = Entering("fromDatetime", callback, datetime, dt.str)
            /\ held' = IF ~dt.threw /\ callback THEN <<Held(DeltaBuilder, <<>>)>>
                       ELSE <<>>
            /\ made' = IF dt.threw THEN [kind |-> "threw", class |-> "RangeError"]
                       ELSE None
    /\ UNCHANGED <<impl, fns, router, funcMap, now, req, resp, post, cells>>
    /\ UNCHANGED <<cryptoVars, fetchVars, keyVars>>

\* JS: the callback calls a unit method of its builder.
UnitCall ==
    /\ impl = "js" /\ entry.callback /\ made = None
    /\ Len(held[1].trace) < MaxBuilderCalls
    /\ \E unit \in Units, value \in JsValues :
        held' = <<Held(unitMethod(held[1].b, unit, value),
                       Append(held[1].trace, BuilderCall(unit, value)))>>
    /\ UNCHANGED <<impl, fns, router, funcMap, now, req, resp, post, entry, cells, made>>
    /\ UNCHANGED <<cryptoVars, fetchVars, keyVars>>

\* JS: the callback of fromNow calls recurring() of its builder.
RecurringCall ==
    /\ impl = "js" /\ entry.fn = "fromNow" /\ entry.callback /\ made = None
    /\ Len(held[1].trace) < MaxBuilderCalls
    /\ entry' = [entry EXCEPT !.recurring = TRUE]
    /\ held' = <<Held(held[1].b, Append(held[1].trace, BuilderCall("recurring", 0)))>>
    /\ UNCHANGED <<impl, fns, router, funcMap, now, req, resp, post, cells, made>>
    /\ UNCHANGED <<cryptoVars, fetchVars, keyVars>>

\* JS: the callback, if any, has returned: fromNow or fromDatetime returns
\* its job properties.
PropsReturn ==
    /\ impl = "js" /\ entry.fn # "none" /\ made = None
    /\ made' = Made(IF entry.fn = "fromNow"
                    THEN fromNow(held[1].b, entry.recurring)
                    ELSE fromDatetime(entry.dtStr, entry.callback,
                                      IF entry.callback THEN held[1].b ELSE DeltaBuilder))
    /\ UNCHANGED <<impl, fns, router, funcMap, now, req, resp, post, entry, held, cells>>
    /\ UNCHANGED <<cryptoVars, fetchVars, keyVars>>

\* Go: the program makes its first builder, FromNow() or a
\* FromTimePropertiesBuilder for a time.
GoBegin ==
    /\ impl = "go" /\ entry = NoEntry
    /\ \E fn \in {"FromNow", "FromTime"}, t \in GoTimes :
        /\ entry' = Entering(fn, FALSE, DateValue(NaN), <<>>)
        /\ held' = <<Held(IF fn = "FromNow" THEN FromNow ELSE FromTime(t), <<>>)>>
    /\ UNCHANGED <<impl, fns, router, funcMap, now, req, resp, post, cells, made>>
    /\ UNCHANGED <<cryptoVars, fetchVars, keyVars>>

\* Go: the program calls a method of a builder it holds and keeps the
\* builder returned as well.
GoMethod ==
    /\ impl = "go" /\ entry.fn # "none"
    /\ Len(held) < MaxBuilderCalls
    /\ \E i \in 1..Len(held), c \in GoCalls(entry.fn) :
        LET after == IF entry.fn = "FromNow"
                     THEN [p |-> fromNowMethod(held[i].b, c), deltas |-> cells]
                     ELSE fromTimeMethod(held[i].b, c, cells)
        IN  /\ held' = Append(held, Held(after.p, Append(held[i].trace, c)))
            /\ cells' = after.deltas
    /\ UNCHANGED <<impl, fns, router, funcMap, now, req, resp, post, entry, made>>
    /\ UNCHANGED <<cryptoVars, fetchVars, keyVars>>

NextProps ==
    \/ FromNowBegin \/ FromDatetimeBegin \/ UnitCall \/ RecurringCall \/ PropsReturn
    \/ GoBegin \/ GoMethod
SpecProps == InitProps /\ [][NextProps]_vars

---------------------------------------------------------------------------
(* What the claims say of a handled request. *)

Handled == resp # None
Js == impl = "js"
Go == impl = "go"
Status == StatusOf(resp)
Invoked == resp.calls # <<>>
Did(step) == \E i \in 1..Len(resp.steps) : resp.steps[i] = step
Wrote(status) == \E i \in 1..Len(resp.writes) : resp.writes[i] = status

IsDecimal(str) == str # <<>> /\ \A i \in 1..Len(str) : IsDigit(str[i])
\* Both credentials are there in their proper form: a decimal timestamp
\* and a hex signature.
CredentialsWellFormed ==
    /\ req.timestamp.present /\ IsDecimal(req.timestamp.str)
    /\ req.signature.form = "hex"
RequestTime == DigitsValue(req.timestamp.str, 0)
\* The signature is the trusted signer's over timestamp ++ body.
SignatureValid ==
    /\ req.signature.form = "hex"
    /\ req.timestamp.present
    /\ req.signature.sig = Sign(TrustedSigner, Message(req.timestamp.str, req.body))
Stale == now - RequestTime > MAX_TIME_DIFF
Authenticated == CredentialsWellFormed /\ SignatureValid /\ ~Stale

\* The payload is an envelope sealed under the router's key holding the
\* encoded argument list args.
CarriesArgs(args) ==
    /\ req.body.shape = "json"
    /\ \E iv \in {TheIv} \cup RandomIvs :
          req.body.encrypted_data = encrypt(RouterKey, encode(Array(args)), iv)
Decryptable == \E args \in ArgLists : CarriesArgs(args)
SentArgs == CHOOSE args \in ArgLists : CarriesArgs(args)
\* The payload is an envelope that does not open under the router's key.
Undecryptable ==
    /\ req.body.shape = "json"
    /\ \A iv \in {TheIv} \cup RandomIvs, pt \in {encode(NotArray)} \cup {encode(Array(a)) : a \in ArgLists} :
          req.body.encrypted_data # encrypt(RouterKey, pt, iv)

\* The request's type is the path of a registered handler.
RegisteredLeaf == CHOOSE l \in Leaves : join(l.path) = req.body.type
Registered ==
    /\ req.body.shape = "json"
    /\ IF Js THEN \E l \in Leaves : join(l.path) = req.body.type
             ELSE req.body.type \in DOMAIN funcMap
\* The body was read in full.
BodyRead == ~Did("read-failed")

\* The number of arguments the registered handler declares.
DeclaredArity ==
    IF Js THEN HandlerLength ELSE funcMap[req.body.type].f.numIn - 1
\* The handler named by the request's type, as the calls record it.
RegisteredId ==
    IF Js THEN RegisteredLeaf.path ELSE funcMap[req.body.type].f.id

---------------------------------------------------------------------------
(* Claims about accepting a job request. *)

C2_DecryptionFailureIs400Class ==
    Handled /\ BodyRead /\ Authenticated /\ Undecryptable =>
        Status \in 400..499 /\ ~Invoked

\* C3: an authenticated request with a decryptable payload, a registered
\* type and matching arity, whose handler returns normally, has that
\* handler invoked with the decoded arguments and is answered 204.
C3_SuccessIs204 ==
    /\ Handled /\ BodyRead /\ Authenticated /\ Decryptable /\ Registered
    /\ Len(SentArgs) = DeclaredArity
    /\ ~Did("failed")
    => /\ resp.calls = <<Call(RegisteredId, SentArgs)>>
       /\ Status = 204

\* C4 as stated: a request whose signature verifies is rejected as stale
\* whenever the current time and its timestamp differ by more than 300
\* seconds in either direction.
C4_StaleWhenOutsideWindow ==
    /\ Handled /\ BodyRead /\ CredentialsWellFormed /\ SignatureValid
    /\ (now - RequestTime > MAX_TIME_DIFF \/ RequestTime - now > MAX_TIME_DIFF)
    => Status = 401 /\ ~Invoked

\* C4 amended: a request whose signature verifies is rejected as stale
\* exactly when its timestamp is more than 300 seconds before the current
\* time; one of exactly 300 seconds, or one in the future, goes on to the
\* parsing of its body.
C4_StaleWhenOlderThanWindow ==
    Handled /\ CredentialsWellFormed /\ SignatureValid =>
        /\ Stale => Wrote(401) /\ ~Invoked /\ ~Did("parse")
        /\ Stale /\ BodyRead => Status = 401
        /\ ~Stale => ~Wrote(401) /\ Did("parse")

\* C4 witness: a handler was invoked for a signed request whose timestamp
\* lies more than 300 seconds in the future.
C4_Witness ==
    /\ Handled /\ CredentialsWellFormed /\ SignatureValid
    /\ RequestTime - now > MAX_TIME_DIFF
    /\ Invoked

\* C7: an authenticated request whose type is not the path of a registered
\* handler is answered 404 and invokes nothing; a type that is such a
\* path resolves whether or not customEndpoint wrappers lie on it.
C7_UnknownTypeIs404 ==
    Handled /\ BodyRead /\ Authenticated /\ Decryptable =>
        /\ ~Registered => Status = 404 /\ ~Invoked
        /\ Registered => Status # 404

\* C8: a handler that fails is isolated: the failure is reported to the
\* failure handler and the request is answered 500; the accept operation
\* itself does not fail.
C8_HandlerFailureIsolated ==
    Handled /\ BodyRead /\ Authenticated /\ Did("failed") =>
        /\ ~resp.threw
        /\ Status = 500
        /\ resp.reports # <<>>

\* C9: a request whose decoded argument list differs in length from the
\* arity the handler declares is rejected and the handler is not invoked.
C9_ArityMismatchRejected ==
    /\ Handled /\ BodyRead /\ Authenticated /\ Decryptable /\ Registered
    /\ Len(SentArgs) # DeclaredArity
    /\ ~Did("failed")
    => /\ ~Invoked
       /\ Status \in 400..499

\* C10: a request whose signature or timestamp header is absent or empty
\* is rejected with a response before any verification, decryption or
\* dispatch.
C10_MissingCredentialsRejected ==
    /\ Handled
    /\ \/ ~req.timestamp.present \/ req.timestamp.str = <<>>
       \/ ~req.signature.present \/ req.signature.form = "empty"
    => /\ ~resp.threw
       /\ Status \in 400..499
       /\ ~Did("verify") /\ ~Did("decrypt") /\ ~Invoked

\* C11: a request whose signature header is not valid hex is answered 400,
\* not the 401 of a well-formed signature that does not verify.
C11_MalformedSignatureIs400 ==
    /\ Handled /\ BodyRead
    /\ req.signature.form = "malformed"
    /\ req.timestamp.present /\ IsDecimal(req.timestamp.str) /\ ~Stale
    => /\ Status = 400
       /\ ~Invoked /\ ~resp.threw

\* C12: a correctly signed, fresh request whose body is not JSON, or is
\* JSON without the fields type and encrypted_data, is answered 400; the
\* accept operation does not throw and no handler is invoked.
C12_MalformedBodyIs400 ==
    Handled /\ BodyRead /\ Authenticated /\ req.body.shape # "json" =>
        /\ ~resp.threw
        /\ Status = 400
        /\ ~Invoked

---------------------------------------------------------------------------
(* Claims about the envelope. *)

Opened == opened # None

\* C13: decrypt under the key of encrypt returns exactly the plaintext
\* given to encrypt, the empty one included, with a random and with a
\* pinned IV.
C13_RoundTrip ==
    Opened /\ envelope.altered = "none" /\ opened.key = sealed.key =>
        opened.result = Plain(sealed.pt)

\* C13 witness: the empty plaintext, sealed with a random IV, came back
\* from decrypt.
C13_Witness ==
    /\ Opened /\ envelope.altered = "none" /\ opened.key = sealed.key
    /\ sealed.pt = EmptyBytes /\ ~sealed.fixed
    /\ opened.result = Plain(EmptyBytes)

\* C14: decrypt fails, returning no bytes, on an envelope with an empty
\* IV half or an empty ciphertext half, on one whose ciphertext was
\* altered, and on one sealed under a different key.
C14_DecryptFailsClosed ==
    Opened /\ (envelope.altered # "none" \/ opened.key # sealed.key) =>
        opened.result = Failed

\* C14 witness: decrypt failed on an envelope whose ciphertext was
\* altered, under the key it was sealed with.
C14_Witness ==
    /\ Opened /\ envelope.altered = "tampered" /\ opened.key = sealed.key
    /\ opened.result = Failed

---------------------------------------------------------------------------
(* Claims about the router's key and route tree. *)

\* C15: the key is derived once per router: whatever calls begin, before
\* or after the derivation completes, the derivation has run once and
\* every call that holds the key holds the key of that one derivation.
C15_KeyDerivedOnce ==
    /\ keyPromise.ran = 1
    /\ \A c \in DOMAIN awaiting :
          awaiting[c].stage = "has-key" => awaiting[c].ran = 1

\* C15 witness: two calls that began before the derivation completed, a
\* scheduling call and an inbound callback, both hold the key.
C15_Witness ==
    /\ \E c \in DOMAIN awaiting :
          awaiting[c] = HasKey(Awaiting("schedule", TRUE), 1)
    /\ \E c \in DOMAIN awaiting :
          awaiting[c] = HasKey(Awaiting("accept", TRUE), 1)

\* C16: the route tree is immutable after construction: no step of any
\* public operation changes the registered paths, their handlers or their
\* endpoint overrides.
C16_RouteTreeImmutable ==
    [][funcMap' = funcMap /\ fns' = fns /\ router' = router]_vars

---------------------------------------------------------------------------
(* Claims about outbound calls. *)

Replied == reply # None
Deleting == post # None /\ post.request.method = "DELETE"
\* deleteJob failed before any request.
FailedLocally == result # None /\ post = None /\ result.value.shape # "text"
Success == reply.status \in 200..299
\* str with every reserved character percent-encoded.
PercentEncoded(str) ==
    [i \in 1..Len(str) |-> IF str[i] = "%" THEN "%25" ELSE str[i]]

\* C17: a scheduling call issues one POST whose body holds the job
\* properties' start_from and run_every, the leaf's effective endpoint,
\* the leaf's path as job_type and an envelope of the call's arguments;
\* on a 2xx response it returns the decoded body.
C17_SubmitRequest ==
    Posted =>
        /\ fetches = 1
        /\ post.request.body.start_from = post.props.startFrom
        /\ post.request.body.run_every = post.props.runEvery
        /\ post.request.body.endpoint_id = EffectiveEndpoint(LeafAt(post.at))
        /\ post.request.body.job_type = join(post.at)
        /\ decrypt(RouterKey, post.request.body.encrypted_data)
              = Plain(encode(Array(post.args)))
        /\ Replied /\ Success => result = Returned(reply.body)

\* C18: the POST goes to .../jobs/{URL-encoded id} exactly when a
\* non-empty custom id was set, and to .../jobs with no custom id or the
\* empty string as custom id.
C18_SubmitUrl ==
    Posted =>
        post.request.url =
            IF post.props.customId.set /\ post.props.customId.str # <<>>
            THEN JobsUrl \o <<"/">> \o PercentEncoded(post.props.customId.str)
            ELSE JobsUrl

\* C18 witness: a job with a custom id holding a reserved character was
\* posted to its own URL.
C18_Witness ==
    /\ Posted
    /\ post.props.customId = Id(<<"job", "%">>)
    /\ post.request.url = JobsUrl \o <<"/", "job", "%25">>

\* C19: a 2xx response is success; a non-2xx response with
\* X-Is-Application-Error: true fails with an APIError of the body's type
\* and reasons; any other non-2xx response, also one whose body has the
\* shape of an error, fails with a generic error naming the status.
C19_ErrorClassification ==
    Replied /\ result # None =>
        /\ Success => result.kind = "returned"
        /\ ~Success /\ reply.appError = "true" /\ reply.body.shape = "error" =>
              /\ result.kind = "threw" /\ result.class = "APIError"
              /\ result.value.type = reply.body.type
              /\ result.value.reasons = reply.body.reasons
        /\ ~Success /\ reply.appError # "true" =>
              /\ result.kind = "threw"
              /\ result.class \in {"Error", "RequestError"}
              /\ result.status = reply.status

\* C19 witness: a delete got a 404 whose body has the shape of an error
\* but no X-Is-Application-Error header, and failed with the generic error
\* naming 404.
C19_Witness ==
    /\ Replied /\ result # None /\ Deleting
    /\ reply.status = 404 /\ reply.appError = "absent" /\ reply.body.shape = "error"
    /\ result.kind = "threw" /\ result.status = 404

\* C20: deleting with an empty id (in JS also with a value that is not a
\* string) fails locally and issues no request; a non-empty id leads to
\* one DELETE to .../jobs/{URL-encoded id}.
C20_DeleteJob ==
    /\ FailedLocally =>
          /\ fetches = 0
          /\ result.kind = "threw"
          /\ ~result.id.string \/ result.id.str = <<>>
    /\ Deleting =>
          /\ fetches = 1
          /\ post.jobId.string /\ post.jobId.str # <<>>
          /\ post.request.url = JobsUrl \o <<"/">> \o PercentEncoded(post.jobId.str)

\* C20 witness: deleteJob with the empty string failed without a request.
C20_Witness ==
    /\ FailedLocally
    /\ result.id = JobId(<<>>)
    /\ fetches = 0 /\ reply = None


---------------------------------------------------------------------------
(* Claims about the delta builders and the job properties. *)

\* The sum of the values the calls of trace passed for unit, in JS numbers
\* within the exact integers.
RECURSIVE SumOf(_, _)
SumOf(trace, unit) ==
    IF trace = <<>> THEN 0
    ELSE (IF Head(trace).m = unit THEN Head(trace).v ELSE 0)
         + SumOf(Tail(trace), unit)
\* The same sum for Go calls, exact: one limb wider than a uint.
Wide(a) == a \o <<0>>
RECURSIVE WideSumOf(_, _)
WideSumOf(trace, unit) ==
    IF trace = <<>> THEN Wide(Uint(0))
    ELSE IF Head(trace).m = unit
         THEN uintAdd(Wide(Head(trace).v), WideSumOf(Tail(trace), unit))
         ELSE WideSumOf(Tail(trace), unit)
JsBuilding == impl = "js" /\ held # <<>>
GoBuilding(fn) == impl = "go" /\ entry.fn = fn

\* C21: after any sequence of unit-method calls on a delta builder, each of
\* its six fields equals the sum of all the values passed for that unit (0
\* for a unit never called), whatever the order of the calls.
C21_DeltaIsSumOfCalls ==
    /\ JsBuilding =>
         \A u \in Units : held[1].b[u] = SumOf(held[1].trace, u)
    /\ GoBuilding("FromNow") =>
         \A i \in 1..Len(held), u \in GoUnits :
             Wide(held[i].b.d[u]) = WideSumOf(held[i].trace, u)

\* The deltas of the job properties or of the skeleton made last: the start
\* descriptor if it is a delta, and the recurrence if there is one.
DeltasOf(data) ==
    (IF data.start_from.type = "delta"
     THEN {[u \in Units |-> data.start_from[u]]} ELSE {})
    \cup (IF data.run_every # NoDelta THEN {data.run_every} ELSE {})
Produced == impl = "js" /\ made.kind = "props"

\* C22: every delta the builders produce, as start descriptor or as
\* recurrence, has all six fields >= 0, whatever values the unit methods
\* were called with.
C22_DeltaFieldsNonNegative ==
    /\ Produced =>
         \A d \in DeltasOf(toObject(made.this).data) : \A u \in Units : d[u] >= 0
    /\ impl = "go" =>
         \A i \in 1..Len(held) :
             \A d \in DeltasOf(buildSkeleton(held[i].b, cells).data) :
                 \A u \in Units : \A l \in 1..Len(d[u]) : d[u][l] >= 0

\* The delta the calls of trace add up to, and whether one of them is
\* recurring().
Accumulated(trace) == [u \in Units |-> SumOf(trace, u)]
Flagged(trace) == \E i \in 1..Len(trace) : trace[i].m = "recurring"
ReturnedBy(fn) == Produced /\ entry.fn = fn

\* C23: fromNow returns job properties whose start descriptor is of type
\* delta with the counts the callback accumulated, the zero delta without a
\* callback, and whose run_every is that same delta if and only if the
\* callback called recurring(), before or after its unit calls, and null
\* otherwise.
C23_FromNow ==
    ReturnedBy("fromNow") =>
        LET trace == held[1].trace
            data == toObject(made.this).data
        IN  /\ data.start_from = ("type" :> "delta") @@ Accumulated(trace)
            /\ data.run_every = IF Flagged(trace) THEN Accumulated(trace) ELSE NoDelta
            /\ ~entry.callback => data.start_from = ("type" :> "delta") @@ DeltaBuilder

\* fromNow returned a recurring job whose callback called recurring()
\* between two unit calls.
C23_Witness ==
    /\ ReturnedBy("fromNow")
    /\ Len(held[1].trace) = 3
    /\ held[1].trace[2].m = "recurring"
    /\ toObject(made.this).data.run_every # NoDelta
    /\ toObject(made.this).data.run_every.years = 4

\* The instant a datetime argument denotes, if any, and the strings of the
\* model that are ISO strings in UTC.
InstantOf(datetime) ==
    IF datetime.date THEN datetime.time ELSE DateParse(datetime.text)
UtcIsoStrings == {<<"1970-01-01T00:00:00.000Z">>, <<"1970-01-01T00:00:01.000Z">>}
Unparseable(datetime) == ~datetime.date /\ DateParse(datetime.text).nan

\* C24: fromDatetime returns job properties whose start descriptor is of
\* type datetime and holds the given instant as an ISO string in UTC, and
\* whose run_every is null without a recurrence callback and the delta the
\* callback accumulated with one; on a date string that cannot be parsed it
\* throws and returns no job properties.
C24_FromDatetime ==
    entry.fn = "fromDatetime" =>
        /\ Unparseable(entry.datetime) => made.kind = "threw"
        /\ made.kind = "props" =>
            LET data == toObject(made.this).data
            IN  /\ data.start_from.type = "datetime"
                /\ data.start_from.datetime \in UtcIsoStrings
                /\ DateParse(data.start_from.datetime) = InstantOf(entry.datetime)
                /\ data.run_every = IF entry.callback
                                    THEN Accumulated(held[1].trace) ELSE NoDelta

\* fromDatetime returned for a string with a zone offset and a callback
\* that called a unit method twice.
C24_Witness ==
    /\ ReturnedBy("fromDatetime")
    /\ entry.datetime = DateString(<<"1970-01-01T01:00:01+01:00">>)
    /\ entry.callback
    /\ Len(held[1].trace) = 2
    /\ toObject(made.this).data.run_every.hours = 4

---------------------------------------------------------------------------
(* Claims about the two directions of a router. *)

CalledBack == Posted /\ req # None /\ resp # None

\* C25: the job_type a leaf's scheduling function emits, received as the
\* type of an authenticated and decryptable callback by httpRoute of the
\* same router, resolves to the handler of that same leaf: the callback is
\* not answered 404 and no other handler is invoked.
C25_PathAgreement ==
    CalledBack => resp.calls = <<Call(post.at, post.args)>>

\* What toObject() of the job properties held returns.
View(heap) == [id |-> toObject(heap.this).id, data |-> newData(heap)]
\* The scheduling function of the router at a property path.
HandlerAt(path) == (CHOOSE h \in handlersOf(router, <<>>) : h.at = path).handler
Scheduling == post = None /\ post' # None /\ post'.request.method = "POST"

\* C26: a scheduling call does not modify the job properties passed to it:
\* afterwards toObject() of the same properties returns the id, start_from
\* and run_every it returned before and none of endpoint_id, encrypted_data
\* and job_type; and the POST body of each call on properties used before
\* carries the job_type and the endpoint_id of the route called.
C26_PropertiesUnmodified ==
    [][Scheduling =>
         /\ made'.this = made.this
         /\ View(made') = View(made)
         /\ DOMAIN View(made').data = {"start_from", "run_every"}
         /\ post'.request.body.job_type = HandlerAt(post'.at).jobType
         /\ post'.request.body.endpoint_id = HandlerAt(post'.at).endpoint]_vars

\* A call on a route with an endpoint of its own has written its three
\* fields to the data object of its POST, and toObject() of the properties
\* it was given returns an object without them.
C26_Witness ==
    /\ Posted
    /\ Len(post.at) = 2
    /\ post.request.body.endpoint_id = "E2"
    /\ made.data = post.request.body
    /\ View(made).data = [start_from |-> made.this.startFrom,
                          run_every |-> made.this.runEvery]

---------------------------------------------------------------------------
(* Further claims about the handling of inbound requests. *)

\* C27: Go ServeHTTP answers a request with one status and stops at the
\* first failed step: once it has written an error response, also the one
\* for a failure to read the body, it performs no later step (signature
\* verification, decryption, handler invocation, a second write).
C27_GoStopsAtFirstFailure ==
    (Handled /\ Go) =>
        /\ Len(resp.writes) <= 1
        /\ Did("read-failed") => resp.steps = <<"read-failed">> /\ resp.calls = <<>>

---------------------------------------------------------------------------
(* Claims about the Go builders. *)

\* What the calls of trace contribute to a unit, added as Go adds uints.
RECURSIVE UintSumOf(_, _)
UintSumOf(trace, unit) ==
    IF trace = <<>> THEN Uint(0)
    ELSE IF Head(trace).m = unit
         THEN uintAdd(UintSumOf(Tail(trace), unit), Head(trace).v)
         ELSE UintSumOf(Tail(trace), unit)
OwnDelta(trace) == jsonDelta([u \in GoUnits |-> UintSumOf(trace, u)])
Called(trace, ms) == \E i \in 1..Len(trace) : trace[i].m \in ms

\* C28: the Go property builders have value semantics: a method returns a
\* new builder and leaves its receiver unchanged, so the skeleton of every
\* builder derived from a base builder holds the contributions of the calls
\* that made this builder and of no others.
C28_GoValueSemantics ==
    /\ GoBuilding("FromNow") =>
         \A i \in 1..Len(held) :
            LET data == buildSkeleton(held[i].b, cells).data
            IN  /\ data.start_from = ("type" :> "delta") @@ OwnDelta(held[i].trace)
                /\ data.run_every = IF Called(held[i].trace, {"Recurring"})
                                    THEN OwnDelta(held[i].trace) ELSE NoDelta
    /\ GoBuilding("FromTime") =>
         \A i \in 1..Len(held) :
            buildSkeleton(held[i].b, cells).data.run_every
                = IF Called(held[i].trace, GoUnits)
                  THEN OwnDelta(held[i].trace) ELSE NoDelta

\* C29: a request whose X-Signature-Timestamp header is not a decimal
\* integer (not numeric, or numeric with characters after the digits) is
\* never dispatched to a handler, even when its signature verifies over
\* that header value and the body.
C29_NonDecimalTimestampNotDispatched ==
    (Handled /\ req.timestamp.present /\ ~IsDecimal(req.timestamp.str) /\ SignatureValid)
        => ~Invoked

---------------------------------------------------------------------------
(* Claims about Go ScheduleJob. *)

\* ScheduleJob returned an error before any request, or issued its POST.
ScheduleFailed == Go /\ result # None /\ post = None /\ result.value.shape = "text"
GoPosted == Go /\ post # None /\ post.request.method = "POST"

\* C30: Go ScheduleJob fails locally, without issuing any HTTP request, when
\* the route was never added with AddRoute or when the number of arguments
\* differs from the handler's parameter count less the context parameter:
\* a POST is issued for added routes with matching arguments only, and a
\* call that failed has issued no request.
C30_ScheduleJobFailsLocally ==
    /\ GoPosted =>
          /\ post.at[1] \in DOMAIN funcMap
          /\ Len(post.args) = funcMap[post.at[1]].f.numIn - 1
    /\ ScheduleFailed => fetches = 0 /\ reply = None /\ result.kind = "threw"
    /\ Go =>
         \A route \in GoRoutes, props \in GoPropsSet, args \in ArgLists, nonce \in RandomIvs :
            (route \notin DOMAIN funcMap \/ Len(args) # funcMap[route].f.numIn - 1)
                => ScheduleJob(funcMap, DefaultEndpointId, RouterKey, route, props,
                               <<>>, args, nonce).threw

\* ScheduleJob failed at once on a route that was added, for its argument
\* count, while another route was never added.
C30_Witness ==
    /\ ScheduleFailed
    /\ result.value.type = <<"argument count mismatch">>
    /\ fetches = 0
    /\ <<"a">> \in DOMAIN funcMap /\ <<"a", Dot, "b">> \notin DOMAIN funcMap
=============================================================================
